---- MODULE Spec2Model ----
(***************************************************************************)
(* django-visual-editor: the cleanup_editor_images management command      *)
(* (orphaned-image scan and delete), the image store it works on, the      *)
(* content records it scans, and the image upload endpoint.                *)
(***************************************************************************)
EXTENDS Integers, Sequences, FiniteSets, TLC

VARIABLES
    recs,      \* ids of the EditorImage rows in the database
    files,     \* ids of the images whose file is in storage
    nextId,    \* the id the next created EditorImage row gets
    content,   \* value of every string attribute of every content instance
    resp,      \* the upload endpoint's latest request and its response
    changed,   \* content or images were changed since the latest run began
    cmd        \* per run of the command: its locals, position, output

vars == <<recs, files, nextId, content, resp, changed, cmd>>

\* ------------------------------------------------------------------ bounds

\* Image ids are 1..MaxImages: at most MaxImages uploads succeed.
MaxImages == 3

\* At most MaxMarked attributes hold non-empty content at a time.
MaxMarked == 2

\* At most MaxEdits saves of content while one run of the command is under
\* way.
MaxEdits == 1

ImageIds == 1..MaxImages

\* The command can be running twice at a time (two operators, cron + manual).
Runs == {1, 2}

\* ----------------------------------------------------- the entity catalog

\* The registered models, in registration order, each with its declared
\* fields and its rows in default order. EditorImage has no string field;
\* User has only CharFields; BlogPost has a CharField and the editor's
\* TextField.
EditorImage ==
    [name |-> "EditorImage",
     fields |-> << [name |-> "image", kind |-> "ImageField"],
                   [name |-> "uploaded_by", kind |-> "ForeignKey"],
                   [name |-> "uploaded_at", kind |-> "DateTimeField"] >>,
     objects |-> << >>]

User ==
    [name |-> "User",
     fields |-> << [name |-> "username", kind |-> "CharField"] >>,
     objects |-> << "u" >>]

BlogPost ==
    [name |-> "BlogPost",
     fields |-> << [name |-> "title", kind |-> "CharField"],
                   [name |-> "content", kind |-> "TextField"],
                   [name |-> "author", kind |-> "ForeignKey"],
                   [name |-> "published", kind |-> "BooleanField"] >>,
     objects |-> << "a", "b" >>]

get_models == << EditorImage, User, BlogPost >>

Range(s) == { s[k] : k \in DOMAIN s }

StringKinds == {"TextField", "CharField"}

\* The attributes that hold a string: <<model, instance, field>>.
Slots ==
    UNION { { <<M.name, i, F.name>> :
                i \in Range(M.objects),
                F \in { G \in Range(M.fields) : G.kind \in StringKinds } } :
            M \in Range(get_models) }

\* -------------------------------------------------------- content strings

\* A string is a sequence of lexemes: the literal  data-image-id=  , the
\* double quote, the single quote, digits, and other text.
PREFIX == "data-image-id="
QUOTE == "dq"
Digits == {"0", "1", "2", "3", "4", "5", "6", "7", "8", "9"}

DigitVal(d) ==
    CASE d = "0" -> 0 [] d = "1" -> 1 [] d = "2" -> 2 [] d = "3" -> 3
      [] d = "4" -> 4 [] d = "5" -> 5 [] d = "6" -> 6 [] d = "7" -> 7
      [] d = "8" -> 8 [] d = "9" -> 9

Empty == << >>

\* <p>x<img data-image-id="1">x</p>
Html1 == << "x", PREFIX, QUOTE, "1", QUOTE, "x" >>

\* data-image-id="2" data-image-id="02": one id twice, once zero-padded.
Html2 == << PREFIX, QUOTE, "2", QUOTE, PREFIX, QUOTE, "0", "2", QUOTE >>

\* data-image-id="" data-image-id='2' data-image-id="2data-image-id="3"
\* data-image-id="1": three near-markers, then markers for 3 and 1.
Html3 == << PREFIX, QUOTE, QUOTE, PREFIX, "sq", "2", "sq", PREFIX, QUOTE, "2",
            PREFIX, QUOTE, "3", QUOTE, PREFIX, QUOTE, "1", QUOTE >>

Samples == { Html1, Html2, Html3 }

int_first_digit(ds) == DigitVal(ds[1])

\* int(img_id)
RECURSIVE int(_)
int(ds) ==
    IF ds = << >> THEN 0
    ELSE 10 * int(SubSeq(ds, 1, Len(ds) - 1)) + DigitVal(ds[Len(ds)])

\* The end of the longest run of digits of s that starts at position k
\* (k - 1 when s[k] is no digit): the greedy \d+.
RECURSIVE DigitsEnd(_, _)
DigitsEnd(s, k) ==
    IF k <= Len(s) /\ s[k] \in Digits THEN DigitsEnd(s, k + 1) ELSE k - 1

\* re.findall(r'data-image-id="(\d+)"', s) from position k on: the captured
\* digit strings of the leftmost non-overlapping matches, in order.
RECURSIVE findall_from(_, _)
findall_from(s, k) ==
    IF k > Len(s) THEN << >>
    ELSE IF /\ s[k] = PREFIX
            /\ k + 1 <= Len(s) /\ s[k + 1] = QUOTE
            /\ DigitsEnd(s, k + 2) >= k + 2
            /\ DigitsEnd(s, k + 2) + 1 <= Len(s)
            /\ s[DigitsEnd(s, k + 2) + 1] = QUOTE
         THEN << SubSeq(s, k + 2, DigitsEnd(s, k + 2)) >>
                  \o findall_from(s, DigitsEnd(s, k + 2) + 2)
         ELSE findall_from(s, k + 1)

\* re.search in place of re.findall: the first match alone.
findall_first(s) ==
    IF findall_from(s, 1) = << >> THEN << >> ELSE << Head(findall_from(s, 1)) >>

findall(s) == findall_from(s, 1)

\* ------------------------------------------------------------ the command

getattr_empty(m, i, f) == Empty

\* getattr(instance, field.name, ""), then str(): attributes that hold no
\* string have no marker in their text.
getattr(m, i, f) ==
    IF <<m, i, f>> \in DOMAIN content THEN content[<<m, i, f>>] ELSE Empty

is_long_text(field) == field.kind = "TextField"

\* isinstance(field, (models.TextField, models.CharField))
is_text_field(field) == field.kind \in {"TextField", "CharField"}

text_fields(model) == SelectSeq(model.fields, is_text_field)

\* The body of `for instance in model.objects.all()` over the rows `insts`,
\* inside the try: the reads of the instances in `bad` raise, which leaves
\* the loop. Gives the used ids and the attribute whose read raised.
RECURSIVE scan_instances(_, _, _, _, _)
scan_instances(m, f, insts, bad, acc) ==
    IF insts = << >> THEN [used |-> acc, raised |-> {}]
    ELSE IF Head(insts) \in bad
         THEN [used |-> acc, raised |-> { <<m, Head(insts), f>> }]
    ELSE IF getattr(m, Head(insts), f) = Empty
         THEN scan_instances(m, f, Tail(insts), bad, acc)
    ELSE scan_instances(m, f, Tail(insts), bad,
             acc \cup { int(d) : d \in Range(findall(getattr(m, Head(insts), f))) })

\* image.image.name
ImageName(id) == <<"editor_uploads", id>>

\* A queryset's rows in EditorImage's default ordering, newest upload
\* first; ids grow with upload time.
RECURSIVE ordered(_)
ordered(S) ==
    IF S = {} THEN << >>
    ELSE LET top == CHOOSE x \in S : \A y \in S : y <= x
         IN << top >> \o ordered(S \ {top})

\* No request was answered since the latest other step.
NoResp ==
    [method |-> "", authed |-> FALSE, file |-> << >>, status |-> 0,
     body |-> << >>, recs0 |-> {}, files0 |-> {}]

Idle ==
    [pc |-> "idle", dry_run |-> FALSE, total_images |-> 0, used_image_ids |-> {},
     models_checked |-> 0, mi |-> 0, fi |-> 0, unused_count |-> 0,
     unused_images |-> << >>, out |-> << >>, deleted |-> << >>, noop |-> {},
     raised |-> {}, queried |-> {}, recs0 |-> {}, files0 |-> {},
     second |-> FALSE, prior |-> 0, failed |-> {}, edits |-> << >>, stale |-> {}]

AllIdle == \A r \in Runs : cmd[r].pc = "idle"

Write(c, lines) == [c EXCEPT !.out = c.out \o lines]

\* handle, lines 19-31: the options, the first two lines of output, the
\* count of all images. A run that follows a completed destructive run of
\* the same operator with no change in between is marked `second`.
Start(r, dry) ==
    /\ cmd[r].pc \in {"idle", "done"}
    /\ cmd' = [cmd EXCEPT ![r] =
          [Idle EXCEPT
             !.pc = "models",
             !.dry_run = dry,
             !.total_images = Cardinality(recs),
             !.mi = 1,
             !.out = << <<"Searching">>, <<"FoundUploaded", Cardinality(recs)>> >>,
             !.recs0 = recs,
             !.files0 = files,
             !.second = (cmd[r].pc = "done" /\ ~cmd[r].dry_run /\ ~changed),
             !.prior = Len(cmd[r].deleted)]]
    /\ changed' = FALSE
    /\ resp' = NoResp
    /\ UNCHANGED <<recs, files, nextId, content>>

\* handle, lines 33-45: the next registered model; one with no text field
\* is skipped, another is counted and announced.
EnterModel(r) ==
    LET c == cmd[r] IN
    /\ c.pc = "models"
    /\ c.mi <= Len(get_models)
    /\ LET model == get_models[c.mi] IN
       cmd' = [cmd EXCEPT ![r] =
          IF text_fields(model) = << >>
          THEN [c EXCEPT !.mi = c.mi + 1]
          ELSE Write([c EXCEPT !.pc = "fields", !.fi = 1,
                               !.models_checked = c.models_checked + 1],
                     << <<"Checking", model.name>> >>)]
    /\ UNCHANGED <<recs, files, nextId, content, resp, changed>>

\* Every order a query without a total ordering can return the rows in.
Orders(model) ==
    { o \in [DOMAIN model.objects -> Range(model.objects)] :
        Range(o) = Range(model.objects) }

\* handle, lines 47-64: one text field of the current model: the query for
\* all rows, the loop over them, and the except clause around the loop.
\* The reads of the instances in `bad` raise.
ScanField(r, bad) ==
    LET c == cmd[r]
        model == get_models[c.mi]
        fields == text_fields(model)
        field == fields[c.fi]
        last == c.fi = Len(fields)
    IN
    /\ c.pc = "fields"
    /\ bad \subseteq Range(model.objects)
    /\ \E order \in Orders(model) :
          LET got == scan_instances(model.name, field.name, order, bad,
                                    c.used_image_ids)
              c1 == [c EXCEPT !.used_image_ids = got.used,
                              !.raised = c.raised \cup got.raised,
                              !.queried = c.queried \cup { <<model.name, field.name>> },
                              !.fi = IF last THEN 0 ELSE c.fi + 1,
                              !.mi = IF last THEN c.mi + 1 ELSE c.mi,
                              !.pc = IF last THEN "models" ELSE "fields"]
          IN cmd' = [cmd EXCEPT ![r] =
                IF got.raised = {} THEN c1
                ELSE Write(c1, << <<"Warning", model.name, field.name>> >>)]
    /\ UNCHANGED <<recs, files, nextId, content, resp, changed>>

exclude_none(used) == recs

\* all_images.exclude(id__in=used_image_ids), evaluated now.
exclude(used) == recs \ used

dry_branch_never(c) == FALSE

\* if dry_run:
dry_branch(c) == c.dry_run

\* handle, lines 66-80: the two summary lines, the count of the unused
\* images, and the branch on it.
CountUnused(r) ==
    LET c == cmd[r]
        n == Cardinality(exclude(c.used_image_ids))
        c1 == Write([c EXCEPT !.unused_count = n],
                    << <<"Checked", c.models_checked>>,
                       <<"InUse", Cardinality(c.used_image_ids)>> >>)
    IN
    /\ c.pc = "models"
    /\ c.mi > Len(get_models)
    /\ cmd' = [cmd EXCEPT ![r] =
          IF n = 0 THEN Write([c1 EXCEPT !.pc = "done"], << <<"NoUnused">> >>)
          ELSE IF dry_branch(c)
               THEN Write([c1 EXCEPT !.pc = "fetch"],
                          << <<"FoundUnused", n>>, <<"DryRun">> >>)
               ELSE Write([c1 EXCEPT !.pc = "fetch"], << <<"FoundUnused", n>> >>)]
    /\ UNCHANGED <<recs, files, nextId, content, resp, changed>>

\* handle, lines 81 and 87: the loop's query for the unused images, run
\* when the loop begins. A dry run lists them (lines 81-84) and ends.
Fetch(r) ==
    LET c == cmd[r]
        rows == ordered(exclude(c.used_image_ids))
        c1 == [c EXCEPT !.unused_images = rows]
    IN
    /\ c.pc = "fetch"
    /\ cmd' = [cmd EXCEPT ![r] =
          IF dry_branch(c)
          THEN Write([c1 EXCEPT !.pc = "done"],
                     [k \in DOMAIN rows |-> <<"WouldDelete", ImageName(rows[k]), rows[k]>>])
          ELSE IF rows = << >> THEN [c1 EXCEPT !.pc = "finish"]
          ELSE [c1 EXCEPT !.pc = "announce"]]
    /\ UNCHANGED <<recs, files, nextId, content, resp, changed>>

Announce_silent(r) ==
    /\ cmd[r].pc = "announce"
    /\ cmd' = [cmd EXCEPT ![r] = [cmd[r] EXCEPT !.pc = "delfile"]]
    /\ UNCHANGED <<recs, files, nextId, content, resp, changed>>

\* handle, line 88: the line that names the image about to be deleted.
Announce(r) ==
    LET c == cmd[r]
        id == Head(c.unused_images)
    IN
    /\ c.pc = "announce"
    /\ cmd' = [cmd EXCEPT ![r] =
          Write([c EXCEPT !.pc = "delfile"], << <<"Deleting", ImageName(id), id>> >>)]
    /\ UNCHANGED <<recs, files, nextId, content, resp, changed>>

storage_delete_strict(id, fails) == ~fails /\ id \in files

\* storage.delete(name) returns: a file that is already gone is passed
\* over in silence, any other storage error (`fails`) is raised.
storage_delete(id, fails) == ~fails

\* handle, line 90: image.image.delete(save=False). The storage removes
\* the file; an error it raises is caught nowhere in handle, so the
\* command ends there.
DeleteFile(r, fails) ==
    LET c == cmd[r]
        id == Head(c.unused_images)
    IN
    /\ c.pc = "delfile"
    /\ IF ~storage_delete(id, fails)
       THEN /\ cmd' = [cmd EXCEPT ![r] =
                  [c EXCEPT !.pc = "crashed", !.failed = c.failed \cup {id}]]
            /\ files' = files
       ELSE /\ cmd' = [cmd EXCEPT ![r] =
                  [c EXCEPT !.pc = "delrec",
                            !.noop = IF id \in files THEN c.noop ELSE c.noop \cup {id}]]
            /\ files' = files \ {id}
    /\ UNCHANGED <<recs, nextId, content, resp, changed>>

delete_row_kept(id) == recs

\* image.delete(): the rows left in the table.
delete_row(id) == recs \ {id}

\* The ids that the content holds a marker for, as the scan would read
\* them now.
referenced ==
    UNION { { int(d) : d \in Range(findall(content[s])) } : s \in Slots }

\* handle, line 92: image.delete(). A row that is already gone deletes
\* nothing and raises nothing. Then the loop goes on or ends. `stale`
\* keeps the ids whose row went while the content held a marker for them.
DeleteRecord(r) ==
    LET c == cmd[r]
        id == Head(c.unused_images)
        rest == Tail(c.unused_images)
    IN
    /\ c.pc = "delrec"
    /\ cmd' = [cmd EXCEPT ![r] =
          [c EXCEPT !.pc = IF rest = << >> THEN "finish" ELSE "announce",
                    !.unused_images = rest,
                    !.deleted = IF id \in recs THEN Append(c.deleted, id) ELSE c.deleted,
                    !.noop = IF id \in recs THEN c.noop ELSE c.noop \cup {id},
                    !.stale = IF id \in recs /\ id \in referenced
                              THEN c.stale \cup {id} ELSE c.stale]]
    /\ recs' = delete_row(id)
    /\ UNCHANGED <<files, nextId, content, resp, changed>>

\* handle, lines 94-96: the closing line, with the count taken at line 71.
Finish(r) ==
    LET c == cmd[r] IN
    /\ c.pc = "finish"
    /\ cmd' = [cmd EXCEPT ![r] =
          Write([c EXCEPT !.pc = "done"], << <<"Deleted", c.unused_count>> >>)]
    /\ UNCHANGED <<recs, files, nextId, content, resp, changed>>

\* The process of a run that ended (normally or by an exception) is gone.
Reset(r) ==
    /\ cmd[r].pc \in {"done", "crashed"}
    /\ cmd' = [cmd EXCEPT ![r] = Idle]
    /\ changed' = TRUE
    /\ UNCHANGED <<recs, files, nextId, content, resp>>

\* ------------------------------------------------------- the environment

upload_status_untyped(method, authed, file, gate) ==
    IF ~authed /\ method # "POST" THEN gate
    ELSE IF ~authed THEN 302
    ELSE IF method # "POST" THEN 405
    ELSE IF file = << >> THEN 400
    ELSE 200

\* The upload endpoint's checks: login is required (302 to the login
\* page), only POST is allowed (405), the request must carry a file (400)
\* whose content type is image/... (400). `file` is << >> or the file's
\* content type <<type, subtype>>; `gate` is the status of the outer one
\* of the two decorators for a request that fails both.
upload_status(method, authed, file, gate) ==
    IF ~authed /\ method # "POST" THEN gate
    ELSE IF ~authed THEN 302
    ELSE IF method # "POST" THEN 405
    ELSE IF file = << >> THEN 400
    ELSE IF file[1] # "image" THEN 400
    ELSE 200

\* The upload endpoint: a request that passes the checks creates one
\* EditorImage and is answered 200 with success, url and id.
upload_image(method, authed, file, gate) ==
    LET status == upload_status(method, authed, file, gate)
        body ==
            IF status = 200 THEN <<"success", ImageName(nextId), nextId>>
            ELSE IF status = 400 THEN <<"error">>
            ELSE << >>
    IN
    /\ status = 200 => nextId <= MaxImages
    /\ resp' = [method |-> method, authed |-> authed, file |-> file,
                status |-> status, body |-> body, recs0 |-> recs, files0 |-> files]
    /\ IF status = 200
       THEN /\ recs' = recs \cup {nextId}
            /\ files' = files \cup {nextId}
            /\ nextId' = nextId + 1
            /\ changed' = TRUE
       ELSE UNCHANGED <<recs, files, nextId, changed>>
    /\ UNCHANGED <<content, cmd>>

Marked(c) == { s \in DOMAIN c : c[s] # Empty }

\* post_create / post_edit: form.save() stores the editor's output as the
\* value of a string attribute of a content instance.
save(slot, value) ==
    /\ content[slot] # value
    /\ Cardinality(Marked([content EXCEPT ![slot] = value])) <= MaxMarked
    /\ content' = [content EXCEPT ![slot] = value]
    /\ changed' = TRUE
    /\ resp' = NoResp
    /\ UNCHANGED <<recs, files, nextId, cmd>>

\* post_edit while run r of the command is under way: the same save, in
\* another process. `edits` keeps which attribute was saved and whether
\* the run had already queried that attribute's field (`late`).
save_during(r, slot, value) ==
    LET c == cmd[r] IN
    /\ c.pc \notin {"idle", "done", "crashed"}
    /\ Len(c.edits) < MaxEdits
    /\ content[slot] # value
    /\ Cardinality(Marked([content EXCEPT ![slot] = value])) <= MaxMarked
    /\ content' = [content EXCEPT ![slot] = value]
    /\ cmd' = [cmd EXCEPT ![r] =
          [c EXCEPT !.edits = Append(c.edits,
              [slot |-> slot, late |-> <<slot[1], slot[3]>> \in c.queried])]]
    /\ changed' = TRUE
    /\ resp' = NoResp
    /\ UNCHANGED <<recs, files, nextId>>

\* ----------------------------------------------------- the specifications

Methods == {"GET", "POST"}
Files == { << >>, <<"image", "jpeg">>, <<"text", "plain">> }
Values == Samples \cup {Empty}

\* Nothing uploaded, no content written, no run of the command.
Init ==
    /\ recs = {}
    /\ files = {}
    /\ nextId = 1
    /\ content = [s \in Slots |-> Empty]
    /\ resp = NoResp
    /\ changed = TRUE
    /\ cmd = [r \in Runs |-> Idle]

\* The command as the spec states it: one run at a time, nothing else
\* going on while it runs, no read and no deletion raising.
Next ==
    \/ /\ AllIdle
       /\ \E m \in Methods, a \in BOOLEAN, f \in Files, g \in {302, 405} :
             upload_image(m, a, f, g)
    \/ /\ AllIdle
       /\ \E s \in Slots, v \in Values : save(s, v)
    \/ \E dry \in BOOLEAN : Start(1, dry)
    \/ EnterModel(1)
    \/ ScanField(1, {})
    \/ CountUnused(1)
    \/ Fetch(1)
    \/ Announce(1)
    \/ DeleteFile(1, FALSE)
    \/ DeleteRecord(1)
    \/ Finish(1)
    \/ Reset(1)

Spec == Init /\ [][Next]_vars

\* All images uploaded, content written, no run of the command yet.
InitLoaded ==
    /\ recs = ImageIds
    /\ files = ImageIds
    /\ nextId = MaxImages + 1
    /\ content \in { c \in [Slots -> Values] : Cardinality(Marked(c)) <= MaxMarked }
    /\ resp = NoResp
    /\ changed = TRUE
    /\ cmd = [r \in Runs |-> Idle]

Instances == UNION { Range(M.objects) : M \in Range(get_models) }

\* One run at a time, in which the read of one instance's attribute can
\* raise and the storage can fail to delete a file.
NextFault ==
    \/ \E dry \in BOOLEAN : Start(1, dry)
    \/ EnterModel(1)
    \/ \E bad \in {{}} \cup { {i} : i \in Instances } :
          /\ bad = {} \/ cmd[1].raised = {}
          /\ ScanField(1, bad)
    \/ CountUnused(1)
    \/ Fetch(1)
    \/ Announce(1)
    \/ \E fails \in BOOLEAN : DeleteFile(1, fails)
    \/ DeleteRecord(1)
    \/ Finish(1)
    \/ Reset(1)

SpecFault == InitLoaded /\ [][NextFault]_vars

\* The steps of run r of the command when nothing raises.
RunStep(r) ==
    \/ EnterModel(r)
    \/ ScanField(r, {})
    \/ CountUnused(r)
    \/ Fetch(r)
    \/ Announce(r)
    \/ DeleteFile(r, FALSE)
    \/ DeleteRecord(r)
    \/ Finish(r)

\* The steps of run r from the loop's query on.
DeletionStep(r) ==
    \/ Fetch(r)
    \/ Announce(r)
    \/ DeleteFile(r, FALSE)
    \/ DeleteRecord(r)
    \/ Finish(r)

\* Two runs without --dry-run, each started once, their steps interleaved.
NextRace ==
    \E r \in Runs :
        \/ cmd[r].pc = "idle" /\ Start(r, FALSE)
        \/ RunStep(r)

SpecRace == InitLoaded /\ [][NextRace]_vars

\* One run without --dry-run, with saves of content by the site's users
\* interleaved between its steps.
NextEdit ==
    \/ cmd[1].pc = "idle" /\ Start(1, FALSE)
    \/ RunStep(1)
    \/ \E s \in Slots, v \in Values : save_during(1, s, v)

SpecEdit == InitLoaded /\ [][NextEdit]_vars

\* Some images uploaded, more to come; content written; no run yet.
InitUpload ==
    /\ \E k \in 0..(MaxImages - 1) :
          /\ recs = 1..k
          /\ files = 1..k
          /\ nextId = k + 1
    /\ content \in { c \in [Slots -> Values] : Cardinality(Marked(c)) <= MaxMarked }
    /\ resp = NoResp
    /\ changed = TRUE
    /\ cmd = [r \in Runs |-> Idle]

\* One run without --dry-run, with uploads by the site's users answered
\* between its steps.
NextUpload ==
    \/ cmd[1].pc = "idle" /\ Start(1, FALSE)
    \/ RunStep(1)
    \/ /\ cmd[1].pc \notin {"idle", "done"}
       /\ upload_image("POST", TRUE, <<"image", "jpeg">>, 302)

SpecUpload == InitUpload /\ [][NextUpload]_vars

\* ------------------------------------------------------------- the claims

RECURSIVE Pow10(_)
Pow10(n) == IF n = 0 THEN 1 ELSE 10 * Pow10(n - 1)

\* The number a string of digits writes.
NumberOf(ds) ==
    LET RECURSIVE Sum(_)
        Sum(k) == IF k = 0 THEN 0
                  ELSE DigitVal(ds[k]) * Pow10(Len(ds) - k) + Sum(k - 1)
    IN Sum(Len(ds))

\* The ids that markers in the string s reference: every n such that s has
\* data-image-id=, a double quote, one or more digits that write n, and a
\* double quote, in a row.
MarkerIds(s) ==
    { NumberOf(SubSeq(s, p[1] + 2, p[2] - 1)) :
        p \in { q \in (DOMAIN s) \X (DOMAIN s) :
                  /\ q[1] + 3 <= q[2]
                  /\ s[q[1]] = PREFIX
                  /\ s[q[1] + 1] = QUOTE
                  /\ s[q[2]] = QUOTE
                  /\ \A k \in (q[1] + 2)..(q[2] - 1) : s[k] \in Digits } }

\* R: the ids referenced by a marker in any string attribute of any
\* instance of any registered model.
RefIds == UNION { MarkerIds(content[s]) : s \in Slots }

\* The run is past its scan phase.
PostScan(c) ==
    \/ c.pc \in {"fetch", "announce", "delfile", "delrec", "finish", "done", "crashed"}
    \/ c.pc = "models" /\ c.mi > Len(get_models)

\* C1: a run without --dry-run that ended (no error, nothing else going
\* on) has deleted exactly the images it found stored whose id no marker
\* references: their rows and files are gone, and the rows and files of the
\* referenced images are all still there.
C1_DeletesExactlyUnreferenced ==
    \A r \in Runs :
        LET c == cmd[r]
            D == c.recs0 \ RefIds
        IN (c.pc = "done" /\ ~c.dry_run) =>
              /\ recs = c.recs0 \ D
              /\ files = c.files0 \ D
              /\ Range(c.deleted) = D
              /\ Len(c.deleted) = Cardinality(D)

\* Some images were deleted and some were kept.
C1_Witness ==
    \E r \in Runs :
        /\ cmd[r].pc = "done" /\ ~cmd[r].dry_run
        /\ cmd[r].deleted # << >>
        /\ recs # {}
        /\ recs \subseteq RefIds

\* C2: from its start on, a run with --dry-run leaves the image rows and
\* the stored files as it found them.
C2_DryRunKeepsStore ==
    \A r \in Runs :
        (cmd[r].pc # "idle" /\ cmd[r].dry_run) =>
            recs = cmd[r].recs0 /\ files = cmd[r].files0

\* A dry run ended that found some, but not all, images unused.
C2_Witness ==
    \E r \in Runs :
        /\ cmd[r].pc = "done" /\ cmd[r].dry_run
        /\ cmd[r].unused_count > 0
        /\ cmd[r].unused_count < cmd[r].total_images
        /\ recs = cmd[r].recs0 /\ cmd[r].recs0 # {}

\* C5: a run without --dry-run that follows a completed run without
\* --dry-run, with no content or image changed in between, counts zero
\* unused images, never enters the deletion branch, deletes nothing and
\* leaves the store as the first run left it.
C5_SecondRunDeletesNothing ==
    \A r \in Runs :
        LET c == cmd[r] IN
        (c.second /\ ~c.dry_run) =>
            /\ recs = c.recs0 /\ files = c.files0
            /\ c.deleted = << >>
            /\ c.pc \in {"models", "fields", "done"}
            /\ c.pc = "done" =>
                  c.unused_count = 0 /\ c.out[Len(c.out)] = <<"NoUnused">>

\* The second run ended after a first run that did delete images.
C5_Witness ==
    \E r \in Runs :
        /\ cmd[r].second /\ ~cmd[r].dry_run
        /\ cmd[r].pc = "done"
        /\ cmd[r].prior > 0

\* C6: once the scan is over, the used set is exactly the set of ids that
\* markers reference in the string attributes of all instances of all
\* registered models, whichever model or field holds the marker, however
\* often an id is repeated and in whichever order the rows were returned.
C6_UsedIsReferenced ==
    \A r \in Runs :
        PostScan(cmd[r]) => cmd[r].used_image_ids = RefIds

\* Markers in attributes of two models, one id repeated and zero-padded,
\* near-markers beside them.
C6_Witness ==
    \E r \in Runs :
        /\ PostScan(cmd[r])
        /\ content[<<"User", "u", "username">>] = Html2
        /\ content[<<"BlogPost", "b", "content">>] = Html3
        /\ cmd[r].used_image_ids = {1, 2, 3}

\* The run has counted the unused images.
Counted(c) ==
    c.pc \in {"fetch", "announce", "delfile", "delrec", "finish", "done", "crashed"}

\* The lines of a run's output of one kind.
Lines(c, kind) == { l \in Range(c.out) : l[1] = kind }

\* C7 as claimed: the reported number of images in use is the number of
\* stored images that a marker references, and the reported number of
\* unused images the number of stored images no marker references.
C7_Original ==
    \A r \in Runs :
        LET c == cmd[r] IN
        Counted(c) =>
            /\ Lines(c, "InUse") = { <<"InUse", Cardinality(c.recs0 \cap RefIds)>> }
            /\ c.unused_count = Cardinality(c.recs0 \ RefIds)

\* C7, amended: the reported number of unused images is the number of
\* stored images no marker references; the reported number of images in
\* use is the number of distinct ids that markers reference, which is the
\* number of referenced stored images when every referenced id is that of
\* a stored image; a dry run lists exactly the unused images, each with its
\* file name and id.
C7_CountsMatch ==
    \A r \in Runs :
        LET c == cmd[r]
            U == c.recs0 \ RefIds
        IN Counted(c) =>
            /\ Lines(c, "InUse") = { <<"InUse", Cardinality(RefIds)>> }
            /\ RefIds \subseteq c.recs0 =>
                  Lines(c, "InUse") = { <<"InUse", Cardinality(c.recs0 \cap RefIds)>> }
            /\ c.unused_count = Cardinality(U)
            /\ Lines(c, "FoundUnused") =
                  IF U = {} THEN {} ELSE { <<"FoundUnused", Cardinality(U)>> }
            /\ Lines(c, "NoUnused") = IF U = {} THEN { <<"NoUnused">> } ELSE {}
            /\ (c.dry_run /\ c.pc = "done") =>
                  Lines(c, "WouldDelete") =
                      { <<"WouldDelete", ImageName(i), i>> : i \in U }

\* Images 1, 2, 3 and one marker, for 2: a dry run reports 2 unused, 1 in
\* use, and lists 1 and 3.
C7_Witness ==
    \E r \in Runs :
        LET c == cmd[r] IN
        /\ c.pc = "done" /\ c.dry_run
        /\ c.recs0 = {1, 2, 3} /\ RefIds = {2}
        /\ <<"FoundUnused", 2>> \in Range(c.out)
        /\ <<"InUse", 1>> \in Range(c.out)
        /\ <<"WouldDelete", ImageName(3), 3>> \in Range(c.out)

\* The fields of a model of the given kinds, as <<model name, field name>>.
FieldsOf(model, kinds) ==
    { <<model.name, F.name>> : F \in { G \in Range(model.fields) : G.kind \in kinds } }

\* C10 as claimed: the scan reads long-text attributes alone, counts the
\* models that have one, and a marker in a short character field marks
\* nothing as used.
C10_Original ==
    \A r \in Runs :
        LET c == cmd[r] IN
        PostScan(c) =>
            /\ c.queried = UNION { FieldsOf(M, {"TextField"}) : M \in Range(get_models) }
            /\ c.models_checked =
                  Cardinality({ M \in Range(get_models) : FieldsOf(M, {"TextField"}) # {} })
            /\ c.used_image_ids =
                  UNION { MarkerIds(content[s]) :
                            s \in { t \in Slots :
                                      <<t[1], t[3]>> \in UNION { FieldsOf(M, {"TextField"}) :
                                                                    M \in Range(get_models) } } }

\* C10, amended: the scan reads the attributes declared as TextField or
\* CharField, and no other: a model with neither is skipped, not announced
\* and not counted, modelsChecked is the number of registered models with
\* at least one TextField or CharField, and a marker in a CharField marks
\* its image as used like one in a TextField.
C10_ReadsStringFields ==
    \A r \in Runs :
        LET c == cmd[r]
            S == UNION { FieldsOf(M, {"TextField", "CharField"}) : M \in Range(get_models) }
            counted == { M \in Range(get_models) :
                           FieldsOf(M, {"TextField", "CharField"}) # {} }
        IN /\ c.queried \subseteq S
           /\ PostScan(c) =>
                /\ c.queried = S
                /\ c.models_checked = Cardinality(counted)
                /\ Lines(c, "Checking") = { <<"Checking", M.name>> : M \in counted }
                /\ \A s \in Slots : MarkerIds(content[s]) \subseteq c.used_image_ids

\* The one marker there is sits in a CharField of a model that has no
\* TextField, and keeps image 1 from being deleted.
C10_Witness ==
    \E r \in Runs :
        LET c == cmd[r] IN
        /\ c.pc = "done" /\ ~c.dry_run
        /\ Marked(content) = { <<"User", "u", "username">> }
        /\ content[<<"User", "u", "username">>] = Html1
        /\ c.recs0 = {1, 2}
        /\ recs = {1}
        /\ c.models_checked = 2

\* C9: every answer of the upload endpoint is 200 exactly for a POST of an
\* authenticated caller with a file of an image content type, and then one
\* new row with its file was created and the body has success, url and
\* id; an unauthenticated POST gets 302, an authenticated POST with no
\* file or another content type 400 with an error, an authenticated GET
\* 405, and no answer but 200 changes the store; and no step but such a
\* request adds a row.
C9_Answer ==
    LET ok == /\ resp.method = "POST" /\ resp.authed
              /\ resp.file # << >> /\ resp.file[1] = "image"
    IN resp.status # 0 =>
        /\ resp.status = 200 <=> ok
        /\ resp.status = 200 =>
              \E id \in ImageIds \ resp.recs0 :
                  /\ recs = resp.recs0 \cup {id}
                  /\ files = resp.files0 \cup {id}
                  /\ resp.body = <<"success", ImageName(id), id>>
        /\ resp.status # 200 => recs = resp.recs0 /\ files = resp.files0
        /\ (resp.method = "POST" /\ ~resp.authed) => resp.status = 302
        /\ (resp.method = "POST" /\ resp.authed /\ ~ok) =>
              resp.status = 400 /\ resp.body = <<"error">>
        /\ (resp.method = "GET" /\ resp.authed) => resp.status = 405
        /\ (resp.method = "GET" /\ ~resp.authed) => resp.status \in {302, 405}

C3_Original ==
    \A r \in Runs :
        LET c == cmd[r] IN
        PostScan(c) =>
            /\ \A s \in c.raised : <<"Warning", s[1], s[3]>> \in Range(c.out)
            /\ \A s \in Slots \ c.raised : MarkerIds(content[s]) \subseteq c.used_image_ids

\* C4 as claimed: when the storage failed to delete the file of an unused
\* image (in a run whose reads all succeeded), the run does not abort: it
\* goes on, and at its end the rows of all the images it found unused are
\* gone, the failing one's included, and a warning names each failure.
C4_Original ==
    \A r \in Runs :
        LET c == cmd[r] IN
        (c.failed # {} /\ c.raised = {}) =>
            /\ c.pc # "crashed"
            /\ c.pc = "done" =>
                  /\ recs \cap (c.recs0 \ c.used_image_ids) = {}
                  /\ \A i \in c.failed : \E l \in Lines(c, "Warning") : l[Len(l)] = i

Announced(c, i) == <<"Deleting", ImageName(i), i>> \in Range(c.out)

\* Where run c is with the image at the head of its loop, and what it has
\* written by then.
C11_Ordered ==
    \A r \in Runs :
        LET c == cmd[r] IN
        /\ c.dry_run => Lines(c, "Deleting") = {} /\ c.deleted = << >>
        /\ c.pc = "delfile" =>
              c.out[Len(c.out)] =
                  <<"Deleting", ImageName(Head(c.unused_images)), Head(c.unused_images)>>
        /\ c.pc = "delrec" =>
              /\ Announced(c, Head(c.unused_images))
              /\ Head(c.unused_images) \notin files
        /\ \A i \in Range(c.deleted) : Announced(c, i) /\ i \notin files
        /\ c.pc \in {"done", "crashed"} =>
              /\ <<"FoundUploaded", c.total_images>> \in Range(c.out)
              /\ <<"Checked", c.models_checked>> \in Range(c.out)
              /\ <<"InUse", Cardinality(c.used_image_ids)>> \in Range(c.out)
              /\ IF c.unused_count = 0
                 THEN <<"NoUnused">> \in Range(c.out)
                 ELSE <<"FoundUnused", c.unused_count>> \in Range(c.out)

\* A step that removes the file or the row of image i is taken by a run
\* without --dry-run that has already written i's line; the row goes only
\* after the file.
C11_Step ==
    \A i \in ImageIds :
        (i \in files \ files' \/ i \in recs \ recs') =>
            /\ \E r \in Runs : ~cmd[r].dry_run /\ Announced(cmd[r], i)
            /\ i \in recs \ recs' => i \notin files /\ files' = files
            /\ i \in files \ files' => i \in recs /\ recs' = recs

\* C11: nothing is deleted silently and each deletion follows a fixed
\* order. In a run without --dry-run the line naming an image's file and
\* id is written before that image is touched, then its file is deleted,
\* then its row; a dry run writes no such line and deletes nothing; and
\* every run that has ended, normally or by a storage error, has written
\* its counts (images found, models checked, images in use, images
\* unused).
C11_AnnouncedThenFileThenRow == []C11_Ordered /\ [][C11_Step]_vars

\* A run without --dry-run has ended after deleting two images, one after
\* the other.
C11_Witness ==
    /\ cmd[1].pc = "done"
    /\ ~cmd[1].dry_run
    /\ Len(cmd[1].deleted) >= 2
    /\ \A i \in Range(cmd[1].deleted) : Announced(cmd[1], i) /\ i \notin files \cup recs

\* The attributes saved after run c had queried their field.
LateSlots(c) == { e.slot : e \in { x \in Range(c.edits) : x.late } }

\* A step that deletes the row of an image the content references at that
\* moment: every attribute that references it was saved after the run had
\* read it.
C12_Step ==
    \A r \in Runs : \A i \in ImageIds :
        (i \in recs \ recs' /\ cmd'[r].deleted # cmd[r].deleted /\ i \in RefIds) =>
            \A s \in Slots : i \in MarkerIds(content[s]) => s \in LateSlots(cmd[r])

\* C12: the scan has no snapshot isolation. A run without --dry-run can
\* delete an image that the content references at the moment of deletion
\* (C12_Witness), and it does so only when an attribute that references
\* the image was saved after the scan had read that attribute; in a run
\* with no such save, no referenced image is deleted.
C12_StaleOnlyAfterLateEdit ==
    /\ [](\A r \in Runs :
            /\ cmd[r].stale \subseteq Range(cmd[r].deleted)
            /\ LateSlots(cmd[r]) = {} => cmd[r].stale = {})
    /\ [][C12_Step]_vars

\* A run without --dry-run ended after deleting an image that an attribute
\* referenced when its row was deleted: the attribute was saved after the
\* scan had read it, so the scan did not count the image as used.
C12_Witness ==
    /\ cmd[1].pc = "done"
    /\ cmd[1].stale # {}
    /\ LateSlots(cmd[1]) # {}
    /\ cmd[1].stale \cap cmd[1].used_image_ids = {}

\* C13 as claimed: a run without --dry-run deletes only images that were
\* in the store when it counted the images at its start, and the number
\* in its closing line is the number of images it deleted and is at most
\* the total it reported at its start, whatever uploads are answered while
\* it runs.
C13_Original ==
    \A r \in Runs :
        LET c == cmd[r] IN
        ~c.dry_run =>
            /\ Range(c.deleted) \subseteq c.recs0
            /\ \A l \in Lines(c, "Deleted") :
                  /\ l[2] = Len(c.deleted)
                  /\ l[2] <= c.total_images

====
